---------------------------- MODULE Spec2Model ----------------------------
(***************************************************************************)
(* Model of the rfc6381-codec crate (src/src/lib.rs): Codec::from_str,     *)
(* Display for Codec, Avc1 / Mp4a sub-parsers and Codec::parse_codecs.     *)
(*                                                                         *)
(* A Rust `str` is modelled as a sequence of characters.  An ASCII         *)
(* character is the one-character string holding it; a non-ASCII character *)
(* is named by its code point ("U+00E9", "U+20AC", "U+1F44D") and has the  *)
(* UTF-8 encoded length Utf8Len gives it.  All lengths and offsets the     *)
(* code computes (str::len, str::find, split_at, &s[a..b]) are byte        *)
(* offsets and are computed here from the encoded lengths.                 *)
(*                                                                         *)
(* Option<T> is a sequence of length 0 (None) or 1 (Some).                 *)
(* Result<T, E> is a record with tag "Ok" or "Err"; a panic (unwinding out *)
(* of the call) is the third outcome, tag "Panic".                         *)
(***************************************************************************)
EXTENDS Integers, Sequences, FiniteSets

VARIABLES
    input,      \* the string the harness was given
    text,       \* the string the next Codec::from_str call receives
    pc,         \* position of the round-trip harness
    results,    \* outcomes of the Codec::from_str calls so far
    outputs,    \* strings produced by the to_string calls so far
    codecs,     \* the argument of Codec::parse_codecs
    remainder,  \* Option: what the Split iterator has not yet consumed
    items       \* the items the parse_codecs iterator has yielded so far

vars == <<input, text, pc, results, outputs, codecs, remainder, items>>

----------------------------------------------------------------------------
(* Bounds of the model *)

MaxAvcLen == 7
MaxOtiLen == 3
MaxAotLen == 3
MaxTailLen == 2
MaxPasses == 2
MaxPieces == 4

(* Width of u8 *)
U8Max == 255

(* ObjectTypeIdentifier::AUDIO_ISO_IEC_14496_3 (mp4ra-rust) *)
AUDIO_ISO_IEC_14496_3 == 64

(* mpeg4-audio-const: the escape value and the largest representable type *)
AOT_ESCAPE_VALUE == 31
AOT_MAX == 95

----------------------------------------------------------------------------
(* str primitives (byte offsets over UTF-8) *)

None == <<>>
Some(v) == <<v>>

Utf8Len(c) ==
    CASE c = "U+00E9" -> 2
      [] c = "U+20AC" -> 3
      [] c = "U+1F44D" -> 4
      [] OTHER -> 1

RECURSIVE ByteLen(_)
ByteLen(s) == IF s = <<>> THEN 0 ELSE Utf8Len(Head(s)) + ByteLen(Tail(s))

IsCharBoundary(s, b) == \E k \in 0..Len(s) : ByteLen(SubSeq(s, 1, k)) = b

(* Number of characters that end at byte offset b (b a char boundary) *)
CharsBefore(s, b) == CHOOSE k \in 0..Len(s) : ByteLen(SubSeq(s, 1, k)) = b

(* &s[a..b]: panics unless a <= b <= len and both lie on char boundaries *)
ByteSlice(s, a, b) ==
    IF a <= b /\ b <= ByteLen(s) /\ IsCharBoundary(s, a) /\ IsCharBoundary(s, b)
    THEN [panic |-> FALSE,
          str |-> SubSeq(s, CharsBefore(s, a) + 1, CharsBefore(s, b))]
    ELSE [panic |-> TRUE]

(* str::find(char): byte offset of the first occurrence *)
Find(s, c) ==
    IF \E i \in 1..Len(s) : s[i] = c
    THEN LET i == CHOOSE i \in 1..Len(s) : s[i] = c /\ \A j \in 1..(i-1) : s[j] # c
         IN  Some(ByteLen(SubSeq(s, 1, i - 1)))
    ELSE None

(* str::split_at(mid), mid on a char boundary *)
SplitAt(s, mid) ==
    LET k == CharsBefore(s, mid)
    IN  <<SubSeq(s, 1, k), SubSeq(s, k + 1, Len(s))>>

(* str::strip_prefix(char) *)
StripPrefix(s, c) ==
    IF s # <<>> /\ s[1] = c THEN Some(Tail(s)) ELSE None

(* str::splitn(2, '.') *)
SplitN2(s, c) ==
    IF \E i \in 1..Len(s) : s[i] = c
    THEN LET i == CHOOSE i \in 1..Len(s) : s[i] = c /\ \A j \in 1..(i-1) : s[j] # c
         IN  <<SubSeq(s, 1, i - 1), SubSeq(s, i + 1, Len(s))>>
    ELSE <<s>>

----------------------------------------------------------------------------
(* Integer parsing and formatting of core *)

LowerDigits == <<"0","1","2","3","4","5","6","7","8","9","a","b","c","d","e","f">>
UpperDigits == <<"0","1","2","3","4","5","6","7","8","9","A","B","C","D","E","F">>

(* char::to_digit(radix) *)
ToDigit(c, radix) ==
    IF \E i \in 1..radix : LowerDigits[i] = c \/ UpperDigits[i] = c
    THEN Some((CHOOSE i \in 1..radix : LowerDigits[i] = c \/ UpperDigits[i] = c) - 1)
    ELSE None

IntOk(v) == [tag |-> "Ok", val |-> v]
IntErr(k) == [tag |-> "Err", kind |-> k]

RECURSIVE Accumulate(_, _, _)
Accumulate(digits, radix, acc) ==
    IF digits = <<>> THEN IntOk(acc)
    ELSE LET d == ToDigit(Head(digits), radix)
         IN  IF d = None THEN IntErr("InvalidDigit")
             ELSE IF acc * radix > U8Max THEN IntErr("PosOverflow")
             ELSE IF acc * radix + d[1] > U8Max THEN IntErr("PosOverflow")
             ELSE Accumulate(Tail(digits), radix, acc * radix + d[1])

(* u8::from_str_radix: an optional leading '+', then digits of the radix *)
FromStrRadix(src, radix) ==
    IF src = <<>> THEN IntErr("Empty")
    ELSE IF Len(src) = 1 /\ src[1] \in {"+", "-"} THEN IntErr("InvalidDigit")
    ELSE Accumulate(IF src[1] = "+" THEN Tail(src) ELSE src, radix, 0)

(* ParseIntError's Display text *)
ParseIntErrorText(kind) ==
    CASE kind = "Empty" ->
           <<"c","a","n","n","o","t"," ","p","a","r","s","e"," ","i","n","t",
             "e","g","e","r"," ","f","r","o","m"," ","e","m","p","t","y"," ",
             "s","t","r","i","n","g">>
      [] kind = "InvalidDigit" ->
           <<"i","n","v","a","l","i","d"," ","d","i","g","i","t"," ","f","o",
             "u","n","d"," ","i","n"," ","s","t","r","i","n","g">>
      [] kind = "PosOverflow" ->
           <<"n","u","m","b","e","r"," ","t","o","o"," ","l","a","r","g","e",
             " ","t","o"," ","f","i","t"," ","i","n"," ","t","a","r","g","e",
             "t"," ","t","y","p","e">>

(* {:02X} and {:02x} of a u8 *)
UpperHex2(v) == <<UpperDigits[(v \div 16) + 1], UpperDigits[(v % 16) + 1]>>
LowerHex2(v) == <<LowerDigits[(v \div 16) + 1], LowerDigits[(v % 16) + 1]>>

(* {} of a u8 *)
RECURSIVE Decimal(_)
Decimal(v) ==
    IF v < 10 THEN <<LowerDigits[v + 1]>>
    ELSE Decimal(v \div 10) \o <<LowerDigits[(v % 10) + 1]>>

----------------------------------------------------------------------------
(* CodecError and the values of Codec *)

Ok(v) == [tag |-> "Ok", val |-> v]
Err(e) == [tag |-> "Err", err |-> e]
Panic == [tag |-> "Panic"]

InvalidComponent(t) == [kind |-> "InvalidComponent", text |-> t]
ExpectedHierarchySeparator(t) == [kind |-> "ExpectedHierarchySeparator", text |-> t]
UnexpectedLength(n, t) == [kind |-> "UnexpectedLength", expected |-> n, got |-> t]

Avc1(p, c, l) == [profile |-> p, constraints |-> c, level |-> l]
Mpeg4Audio(aot) == [kind |-> "Mpeg4Audio", audio_object_type |-> aot]
Mp4aUnknown(oti, aoti) ==
    [kind |-> "Unknown", object_type_indication |-> oti,
     audio_object_type_indication |-> aoti]
CodecAvc1(a) == [kind |-> "Avc1", avc1 |-> a]
CodecMp4a(m) == [kind |-> "Mp4a", mp4a |-> m]
CodecUnknown(s) == [kind |-> "Unknown", val |-> s]


----------------------------------------------------------------------------
(* impl FromStr for Avc1 *)

Avc1FromStr(value) ==
    IF ByteLen(value) # 6 THEN Err(UnexpectedLength(6, value))
    ELSE
    LET s1 == ByteSlice(value, 0, 2) IN
    IF s1.panic THEN Panic ELSE
    LET profile == FromStrRadix(s1.str, 16) IN
    IF profile.tag = "Err" THEN Err(InvalidComponent(value)) ELSE
    LET s2 == ByteSlice(value, 2, 4) IN
    IF s2.panic THEN Panic ELSE
    LET constraints == FromStrRadix(s2.str, 16) IN
    IF constraints.tag = "Err" THEN Err(InvalidComponent(value)) ELSE
    LET s3 == ByteSlice(value, 4, 6) IN
    IF s3.panic THEN Panic ELSE
    LET level == FromStrRadix(s3.str, 16) IN
    IF level.tag = "Err" THEN Err(InvalidComponent(value)) ELSE
    Ok(Avc1(profile.val, constraints.val, level.val))

----------------------------------------------------------------------------
(* impl FromStr for Mp4a *)

(* ObjectTypeIdentifier::from(u8) and u8::from(ObjectTypeIdentifier): the
   newtype wraps the byte unchanged *)
ObjectTypeIdentifierFrom(b) == b

(* Faulty variant: the reserved value written in decimal instead of hexadecimal *)
IsMpeg4Audio_decimal(oti) == oti = 40

(* the match arm ObjectTypeIdentifier::AUDIO_ISO_IEC_14496_3 *)
IsMpeg4Audio(oti) == oti = AUDIO_ISO_IEC_14496_3

(* AudioObjectType::try_from(u8): rejects the escape value and values too
   large to be represented *)
AudioObjectTypeTryFrom(v) ==
    IF v = AOT_ESCAPE_VALUE \/ v > AOT_MAX THEN [tag |-> "Err"] ELSE [tag |-> "Ok", val |-> v]

Mp4aFromStr(value) ==
    LET i == SplitN2(value, ".")
        s == i[1]
        otiR == FromStrRadix(s, 16)
    IN
    IF otiR.tag = "Err" THEN Err(InvalidComponent(s)) ELSE
    LET oti == ObjectTypeIdentifierFrom(otiR.val)
        aotiR == IF Len(i) = 2 THEN Some(FromStrRadix(i[2], 10)) ELSE None
    IN
    IF aotiR # None /\ aotiR[1].tag = "Err"
    THEN Err(InvalidComponent(ParseIntErrorText(aotiR[1].kind)))
    ELSE
    LET aoti == IF aotiR = None THEN None ELSE Some(aotiR[1].val) IN
    IF IsMpeg4Audio(oti)
    THEN IF aoti # None /\ AudioObjectTypeTryFrom(aoti[1]).tag = "Err"
         THEN Err(InvalidComponent(Decimal(aoti[1])))
         ELSE Ok(Mpeg4Audio(aoti))
    ELSE Ok(Mp4aUnknown(oti, aoti))

----------------------------------------------------------------------------
(* impl fmt::Display for Mp4a *)

(* {:x} of a u8 *)
RECURSIVE LowerHex(_)
LowerHex(v) ==
    IF v < 16 THEN <<LowerDigits[v + 1]>>
    ELSE LowerHex(v \div 16) \o <<LowerDigits[(v % 16) + 1]>>

(* Faulty variant: the secondary value written in hexadecimal although parsed as decimal *)
FmtAoti_hex(v) == <<".">> \o LowerHex(v)

(* write!(f, ".{}", aoti) *)
FmtAoti(v) == <<".">> \o Decimal(v)

Mp4aToString(m) ==
    IF m.kind = "Mpeg4Audio"
    THEN LowerHex2(AUDIO_ISO_IEC_14496_3)
         \o (IF m.audio_object_type # None THEN FmtAoti(m.audio_object_type[1]) ELSE <<>>)
    ELSE LowerHex2(m.object_type_indication)
         \o (IF m.audio_object_type_indication # None
             THEN FmtAoti(m.audio_object_type_indication[1]) ELSE <<>>)

----------------------------------------------------------------------------
(* impl FromStr for Codec, get_rest, impl fmt::Display for Codec *)

Str_avc1 == <<"a","v","c","1">>
Str_mp4a == <<"m","p","4","a">>

GetRest(t) ==
    IF t = <<>> THEN Ok(t)
    ELSE LET rest == StripPrefix(t, ".")
         IN  IF rest # None THEN Ok(rest[1])
             ELSE Err(ExpectedHierarchySeparator(t))

(* Faulty variant: every code of the "avc" family taken for avc1 *)
SampleEntryCodeFrom_family(fourcc) ==
    IF fourcc = Str_mp4a THEN "MP4A"
    ELSE IF SubSeq(fourcc, 1, 3) = SubSeq(Str_avc1, 1, 3) THEN "AVC1"
    ELSE "other"

(* SampleEntryCode::from(FourCC::from(fourcc.as_bytes())), as the match on
   SampleEntryCode::MP4A / SampleEntryCode::AVC1 sees it *)
SampleEntryCodeFrom(fourcc) ==
    IF fourcc = Str_mp4a THEN "MP4A"
    ELSE IF fourcc = Str_avc1 THEN "AVC1"
    ELSE "other"

(* Faulty variant: a string without separator whose length is not that of a four
   character code taken for an unknown codec *)
MissingSeparator_lenient(codec) ==
    IF ByteLen(codec) # 4 THEN Ok(CodecUnknown(codec))
    ELSE Err(ExpectedHierarchySeparator(codec))

(* the else branch of `if let Some(pos) = codec.find('.')` *)
MissingSeparator(codec) == Err(ExpectedHierarchySeparator(codec))

CodecFromStr(codec) ==
    LET pos == Find(codec, ".") IN
    IF pos # None
    THEN LET parts == SplitAt(codec, pos[1])
             fourcc == parts[1]
             rest == parts[2]
         IN
         IF ByteLen(fourcc) # 4 THEN Ok(CodecUnknown(codec))
         ELSE
         LET sample_entry == SampleEntryCodeFrom(fourcc) IN
         CASE sample_entry = "MP4A" ->
                LET r == GetRest(rest) IN
                IF r.tag = "Err" THEN r
                ELSE LET m == Mp4aFromStr(r.val)
                     IN  IF m.tag = "Ok" THEN Ok(CodecMp4a(m.val)) ELSE m
           [] sample_entry = "AVC1" ->
                LET r == GetRest(rest) IN
                IF r.tag = "Err" THEN r
                ELSE LET a == Avc1FromStr(r.val)
                     IN  IF a.tag = "Ok" THEN Ok(CodecAvc1(a.val)) ELSE a
           [] OTHER -> Ok(CodecUnknown(codec))
    ELSE MissingSeparator(codec)

CodecToString(c) ==
    CASE c.kind = "Avc1" ->
           Str_avc1 \o <<".">> \o UpperHex2(c.avc1.profile)
               \o UpperHex2(c.avc1.constraints) \o UpperHex2(c.avc1.level)
      [] c.kind = "Mp4a" -> Str_mp4a \o <<".">> \o Mp4aToString(c.mp4a)
      [] c.kind = "Unknown" -> c.val

----------------------------------------------------------------------------
(* Codec::parse_codecs: codecs.split(',').map(|s| s.trim().parse()) *)

(* char::is_whitespace, for the characters of the model *)
IsWhitespace(c) == c \in {" ", "\t"}

RECURSIVE TrimStart(_)
TrimStart(s) ==
    IF s # <<>> /\ IsWhitespace(Head(s)) THEN TrimStart(Tail(s)) ELSE s

RECURSIVE TrimEnd(_)
TrimEnd(s) ==
    IF s # <<>> /\ IsWhitespace(s[Len(s)]) THEN TrimEnd(SubSeq(s, 1, Len(s) - 1)) ELSE s

(* str::trim *)
Trim(s) == TrimEnd(TrimStart(s))

(* Split<'_, char>::next on the unconsumed remainder r: the segment up to
   the next ',' and what is left (None once the last segment is out) *)
SplitNext(r) ==
    IF \E i \in 1..Len(r) : r[i] = ","
    THEN LET i == CHOOSE i \in 1..Len(r) : r[i] = "," /\ \A j \in 1..(i-1) : r[j] # ","
         IN  [segment |-> SubSeq(r, 1, i - 1), left |-> Some(SubSeq(r, i + 1, Len(r)))]
    ELSE [segment |-> r, left |-> None]

----------------------------------------------------------------------------
(* Inputs *)

SeqsUpTo(A, n) == UNION {[1..k -> A] : k \in 0..n}

AvcAlphabet == {"4", "d", "+", "U+00E9"}
OtiAlphabet == {"4", "0", "g"}
AotAlphabet == {"0", "1", "3", "9", "."}
TailAlphabet == {"4", "1", ".", "U+00E9"}

Codes ==
    { <<>>, Str_avc1, Str_mp4a,
      <<"b","a","d","d">>, <<"a","v","c","3">>, <<"A","V","C","1">>,
      <<"a","v">>, <<"a","v","c","1","x">>,
      <<"U+00E9","a","b">>, <<"U+00E9","a","b","c">>,
      <<"c","o","d","U+1F44D","e","c">> }

AvcInputs == {Str_avc1 \o <<".">> \o p : p \in SeqsUpTo(AvcAlphabet, MaxAvcLen)}

Mp4aInputs ==
    {Str_mp4a \o <<".">> \o h \o n :
        h \in SeqsUpTo(OtiAlphabet, MaxOtiLen),
        n \in {<<>>} \cup {<<".">> \o a : a \in SeqsUpTo(AotAlphabet, MaxAotLen)}}

OtherInputs ==
    {c \o t : c \in Codes,
              t \in {<<>>} \cup {<<".">> \o q : q \in SeqsUpTo(TailAlphabet, MaxTailLen)}}

Inputs == AvcInputs \cup Mp4aInputs \cup OtherInputs

Pieces ==
    { <<",">>, <<" ">>,
      <<"m","p","4","a",".","4","0",".","2">>,
      <<"a","v","c","1",".","4","d","4","0","1","e">>,
      <<"m","p","4","a",".","4","g">>,
      <<"a","v","c","1",".","4","U+00E9","4","4","4">> }

RECURSIVE Concat(_)
Concat(ss) == IF ss = <<>> THEN <<>> ELSE Head(ss) \o Concat(Tail(ss))

Lists == {Concat(ps) : ps \in SeqsUpTo(Pieces, MaxPieces)}

----------------------------------------------------------------------------
(* The round trip harness: parse, format, parse the formatted string again *)

Init ==
    /\ input \in Inputs
    /\ text = input
    /\ pc = "ready"
    /\ results = <<>>
    /\ outputs = <<>>
    /\ codecs = <<>>
    /\ remainder = None
    /\ items = <<>>

(* Codec::from_str(text) *)
FromStr ==
    /\ pc = "ready"
    /\ LET r == CodecFromStr(text)
       IN  /\ results' = Append(results, r)
           /\ pc' = IF r.tag = "Panic" THEN "panicked" ELSE "parsed"
    /\ UNCHANGED <<input, text, outputs, codecs, remainder, items>>

(* codec.to_string() on the value just parsed *)
ToString ==
    /\ pc = "parsed"
    /\ results[Len(results)].tag = "Ok"
    /\ outputs' = Append(outputs, CodecToString(results[Len(results)].val))
    /\ pc' = "formatted"
    /\ UNCHANGED <<input, text, results, codecs, remainder, items>>

(* the formatted string is handed to Codec::from_str in turn *)
Reparse ==
    /\ pc = "formatted"
    /\ Len(results) < MaxPasses
    /\ text' = outputs[Len(outputs)]
    /\ pc' = "ready"
    /\ UNCHANGED <<input, results, outputs, codecs, remainder, items>>

Next == FromStr \/ ToString \/ Reparse

Spec == Init /\ [][Next]_vars

----------------------------------------------------------------------------
(* A consumer draining the iterator Codec::parse_codecs returns *)

ListInit ==
    /\ codecs \in Lists
    /\ remainder = Some(codecs)
    /\ items = <<>>
    /\ pc = "iterating"
    /\ input = <<>>
    /\ text = <<>>
    /\ results = <<>>
    /\ outputs = <<>>

(* Iterator::next yields an item: the next segment, trimmed and parsed.  A
   panic in the closure unwinds out of next and out of the consumer. *)
IterNext ==
    /\ pc = "iterating"
    /\ remainder # None
    /\ LET n == SplitNext(remainder[1])
           r == CodecFromStr(Trim(n.segment))
       IN  /\ remainder' = n.left
           /\ IF r.tag = "Panic"
              THEN items' = items /\ pc' = "panicked"
              ELSE items' = Append(items, r) /\ pc' = "iterating"
    /\ UNCHANGED <<input, text, results, outputs, codecs>>

(* Iterator::next returns None *)
IterEnd ==
    /\ pc = "iterating"
    /\ remainder = None
    /\ pc' = "done"
    /\ UNCHANGED <<input, text, results, outputs, codecs, remainder, items>>

ListNext == IterNext \/ IterEnd

ListSpec == ListInit /\ [][ListNext]_vars

----------------------------------------------------------------------------
(* Vocabulary of the properties *)

StartsWith(s, p) == Len(s) >= Len(p) /\ SubSeq(s, 1, Len(p)) = p
DropChars(s, k) == SubSeq(s, k + 1, Len(s))
HasChar(s, c) == \E i \in 1..Len(s) : s[i] = c
FirstIndex(s, c) == CHOOSE i \in 1..Len(s) : s[i] = c /\ \A j \in 1..(i - 1) : s[j] # c
(* the text before the first '.' of s, and the text after it *)
BeforeDot(s) == SubSeq(s, 1, FirstIndex(s, ".") - 1)
AfterDot(s) == DropChars(s, FirstIndex(s, "."))

Parsed == Len(results) >= 1
IsErrOf(r, k) == r.tag = "Err" /\ r.err.kind = k

AvcInput == StartsWith(input, Str_avc1 \o <<".">>)
AvcPayload == DropChars(input, 5)
Mp4aInput == StartsWith(input, Str_mp4a \o <<".">>)
Mp4aPayload == DropChars(input, 5)
(* first and optional second component of the audio payload *)
Mp4aFirst == IF HasChar(Mp4aPayload, ".") THEN BeforeDot(Mp4aPayload) ELSE Mp4aPayload
Mp4aSecond == IF HasChar(Mp4aPayload, ".") THEN Some(AfterDot(Mp4aPayload)) ELSE None

HexPairs ==
    { <<"0", 0>>, <<"1", 1>>, <<"2", 2>>, <<"3", 3>>, <<"4", 4>>, <<"5", 5>>,
      <<"6", 6>>, <<"7", 7>>, <<"8", 8>>, <<"9", 9>>,
      <<"a", 10>>, <<"b", 11>>, <<"c", 12>>, <<"d", 13>>, <<"e", 14>>, <<"f", 15>>,
      <<"A", 10>>, <<"B", 11>>, <<"C", 12>>, <<"D", 13>>, <<"E", 14>>, <<"F", 15>> }
IsHexDigit(c) == \E p \in HexPairs : p[1] = c
HexValue(c) == (CHOOSE p \in HexPairs : p[1] = c)[2]
HexByte(hi, lo) == 16 * HexValue(hi) + HexValue(lo)

----------------------------------------------------------------------------
(* C1: Codec::from_str returns Ok or Err for every string and never panics
   (no slice taken while parsing falls inside a multi-byte character). *)
C1_NeverPanics ==
    \A i \in 1..Len(results) : results[i].tag \in {"Ok", "Err"}

(* C2: whenever Codec::from_str(s) is Ok(codec), codec.to_string() equals s
   exactly. *)
C2_RoundTripExact ==
    Len(outputs) >= 1 => outputs[1] = input

(* C3: normalization is idempotent: with c the formatted form of a
   successfully parsed s, Codec::from_str(c) succeeds, yields the same value,
   and formats to c again. *)
C3_NormalizationIdempotent ==
    /\ Len(results) >= 2 => results[2].tag = "Ok" /\ results[2] = results[1]
    /\ Len(outputs) >= 2 => outputs[2] = outputs[1]

(* a non-canonical string was normalized, parsed again and formatted again *)
C3_Witness ==
    /\ Len(outputs) = 2
    /\ outputs[1] # input
    /\ results[1].val.kind = "Mp4a"
    /\ results[1].val.mp4a.kind = "Unknown"
    /\ results[1].val.mp4a.audio_object_type_indication # None

(* C4: for "avc1." + P, a payload P that does not have exactly 6 characters
   is rejected with UnexpectedLength{expected: 6, got: P}, and no payload of
   exactly 6 characters is rejected with UnexpectedLength. *)
C4_AvcLengthEnforced ==
    (AvcInput /\ Parsed) =>
        /\ Len(AvcPayload) # 6 => results[1] = Err(UnexpectedLength(6, AvcPayload))
        /\ Len(AvcPayload) = 6 => ~IsErrOf(results[1], "UnexpectedLength")

(* C5: for "avc1." + P with P six characters long (here: six one-byte
   characters), the result is Ok(Avc1{profile, constraints, level}) with the
   base-16 values of the three character pairs exactly when all six
   characters are hexadecimal digits, and Err(InvalidComponent(P)) in every
   other case, a sign character such as '+' included. *)
C5_AvcHexExactly ==
    (AvcInput /\ Parsed /\ Len(AvcPayload) = 6 /\ ByteLen(AvcPayload) = 6) =>
        LET P == AvcPayload IN
        IF \A i \in 1..6 : IsHexDigit(P[i])
        THEN results[1] = Ok(CodecAvc1(Avc1(HexByte(P[1], P[2]),
                                            HexByte(P[3], P[4]),
                                            HexByte(P[5], P[6]))))
        ELSE results[1] = Err(InvalidComponent(P))

(* C6: a string with a '.' whose leading code is not 4 characters long, or
   is a 4-character code other than "mp4a" and "avc1", parses to
   Unknown(s) holding s exactly, and that value formats to s. *)
C6_UnknownPassthrough ==
    (Parsed /\ HasChar(input, ".")
        /\ (Len(BeforeDot(input)) # 4 \/ BeforeDot(input) \notin {Str_mp4a, Str_avc1}))
    => /\ results[1] = Ok(CodecUnknown(input))
       /\ Len(outputs) >= 1 => outputs[1] = input

(* "badd.41" was parsed and formatted *)
C6_Witness ==
    /\ input = <<"b","a","d","d",".","4","1">>
    /\ Len(outputs) >= 1
    /\ results[1].val.kind = "Unknown"

(* C7: a string without '.' is rejected with
   ExpectedHierarchySeparator(whole input), never accepted as Unknown. *)
C7_MissingSeparatorIsError ==
    (Parsed /\ ~HasChar(input, ".")) =>
        results[1] = Err(ExpectedHierarchySeparator(input))

(* a string shorter than a four character code was rejected *)
C7_Witness ==
    /\ Parsed
    /\ input = <<"a","v">>
    /\ IsErrOf(results[1], "ExpectedHierarchySeparator")

(* the i-th comma separated segment of L, by the positions of its commas *)
CommaCount(L) == Cardinality({i \in 1..Len(L) : L[i] = ","})
NthComma(L, n) ==
    CHOOSE p \in 1..Len(L) : L[p] = "," /\ Cardinality({q \in 1..p : L[q] = ","}) = n
Segment(L, i) ==
    SubSeq(L,
           IF i = 1 THEN 1 ELSE NthComma(L, i - 1) + 1,
           IF i = CommaCount(L) + 1 THEN Len(L) ELSE NthComma(L, i) - 1)
(* C8: parse_codecs(L) yields exactly (number of ',' in L) + 1 results, the
   i-th being Codec::from_str of the i-th comma separated segment with the
   surrounding whitespace trimmed, in order; an Err stops nothing. *)
C8_ListYieldsEverySegment ==
    /\ \A i \in 1..Len(items) : items[i] = CodecFromStr(Trim(Segment(codecs, i)))
    /\ pc \in {"done", "panicked"} => Len(items) = CommaCount(codecs) + 1

(* C9: every Err(InvalidComponent(t)) carries in t the malformed component
   as it appears in the input: the video payload, the first audio component
   when it is not hex, the second audio component otherwise. *)
C9_InvalidComponentCarriesInputText ==
    (Parsed /\ IsErrOf(results[1], "InvalidComponent")) =>
        /\ AvcInput => results[1].err.text = AvcPayload
        /\ Mp4aInput =>
              IF FromStrRadix(Mp4aFirst, 16).tag = "Err"
              THEN results[1].err.text = Mp4aFirst
              ELSE Mp4aSecond # None /\ results[1].err.text = Mp4aSecond[1]

(* C10 as stated: with h the base-16 value of the first component and n the
   optional second one, h = 0x40 gives Mpeg4Audio (None when n is absent, the
   resolved value when present) or Err(InvalidComponent), never
   Mp4a::Unknown; h # 0x40 gives Mp4a::Unknown{h, n}. *)
C10_Original ==
    (Mp4aInput /\ Parsed /\ FromStrRadix(Mp4aFirst, 16).tag = "Ok") =>
        LET h == FromStrRadix(Mp4aFirst, 16).val
            r == results[1]
        IN  IF h = 64
            THEN \/ IsErrOf(r, "InvalidComponent") /\ Mp4aSecond # None
                 \/ /\ r.tag = "Ok" /\ r.val.kind = "Mp4a"
                    /\ r.val.mp4a.kind = "Mpeg4Audio"
                    /\ (Mp4aSecond = None) = (r.val.mp4a.audio_object_type = None)
            ELSE /\ r.tag = "Ok" /\ r.val.kind = "Mp4a"
                 /\ r.val.mp4a.kind = "Unknown"
                 /\ r.val.mp4a.object_type_indication = h
                 /\ (Mp4aSecond = None) = (r.val.mp4a.audio_object_type_indication = None)

(* C10 as amended: the statement above holds when n, if present, is a decimal
   u8; a present n that is not a decimal u8 gives Err(InvalidComponent)
   whatever h is.  For h = 0x40 a decimal n gives the audio object type n
   unless the enumeration rejects it (mpeg4-audio-const: the escape value 31
   and the values above 95), which gives Err(InvalidComponent); for
   h # 0x40 every decimal u8 n is stored as is. *)
C10_AudioDispatch ==
    (Mp4aInput /\ Parsed /\ FromStrRadix(Mp4aFirst, 16).tag = "Ok") =>
        LET h == FromStrRadix(Mp4aFirst, 16).val
            r == results[1]
            n == IF Mp4aSecond = None THEN None
                 ELSE Some(FromStrRadix(Mp4aSecond[1], 10))
        IN  IF n # None /\ n[1].tag = "Err"
            THEN IsErrOf(r, "InvalidComponent")
            ELSE LET v == IF n = None THEN None ELSE Some(n[1].val) IN
                 IF h = 64
                 THEN IF v # None /\ (v[1] = 31 \/ v[1] > 95)
                      THEN IsErrOf(r, "InvalidComponent")
                      ELSE r = Ok(CodecMp4a(Mpeg4Audio(v)))
                 ELSE r = Ok(CodecMp4a(Mp4aUnknown(h, v)))

(* "mp4a.44.31": an object type indication other than 0x40 with the
   secondary value 31, which the enumeration would reject, stored as is *)
C10_Witness ==
    /\ Parsed
    /\ input = <<"m","p","4","a",".","4","4",".","3","1">>
    /\ results[1] = Ok(CodecMp4a(Mp4aUnknown(68, Some(31))))

============================================================================
